---- MODULE Spec2Model ----
(***************************************************************************)
(* Bootstrap of the GRIN/GART executor (grin_executor.rs): the partition   *)
(* assignment protocol run over two pegasus jobs, and the process-wide     *)
(* registry cells of graph_proxy (read_graph.rs).                          *)
(***************************************************************************)
EXTENDS Integers, Sequences, FiniteSets, TLC

\* ------------------------------------------------------------------ bounds
NumServers == 2
NumPartitions == 4

NumThreads == 2
MaxCalls == 3

Servers == 0 .. (NumServers - 1)
Partitions == 0 .. (NumPartitions - 1)

\* The two observed executions of the bootstrap ("b" only runs in DetSpec).
Procs == {"a", "b"}

\* A local partition list as the storage reports it: a run of n consecutive
\* partition ids starting at a (possibly empty).
Run(a, n) == [i \in 1 .. n |-> a + i - 1]

LocalPartitionLists ==
    {Run(x[1], x[2]) :
        x \in {y \in Partitions \X (0 .. NumPartitions) : y[1] + y[2] <= NumPartitions}}

\* ------------------------------------------------------------ map helpers
EmptyMap == << >>

\* HashMap::insert
Insert(m, k, v) == [x \in (DOMAIN m) \cup {k} |-> IF x = k THEN v ELSE m[x]]

\* Chunk with its upper bound one short (the last partition of a chunk is dropped).
ChunkShort(partitions, index, nchunk) ==
    SubSeq(partitions, index * nchunk + 1, (index + 1) * nchunk - 1)

\* partitions[index * nchunk .. (index + 1) * nchunk].to_vec(), index 0-based
Chunk(partitions, index, nchunk) ==
    SubSeq(partitions, index * nchunk + 1, (index + 1) * nchunk)

\* for (index, server) in servers.iter().enumerate() { partition_lists.insert(..) }
RECURSIVE InsertChunks(_, _, _, _, _)
InsertChunks(pl, partitions, servers, nchunk, index) ==
    IF index >= Len(servers) THEN pl
    ELSE InsertChunks(Insert(pl, servers[index + 1], Chunk(partitions, index, nchunk)),
                      partitions, servers, nchunk, index + 1)

\* The loop over partitions stopping one element early.
RECURSIVE InsertPartitionsShort(_, _, _, _)
InsertPartitionsShort(m, partitions, server_index, i) ==
    IF i >= Len(partitions) THEN m
    ELSE InsertPartitionsShort(Insert(m, partitions[i], server_index),
                               partitions, server_index, i + 1)

\* for partition in partitions.iter() { map.insert(*partition, *server_index) }
RECURSIVE InsertPartitions(_, _, _, _)
InsertPartitions(m, partitions, server_index, i) ==
    IF i > Len(partitions) THEN m
    ELSE InsertPartitions(Insert(m, partitions[i], server_index),
                          partitions, server_index, i + 1)

\* Grouping keyed by the length of the list instead of the list.
PushServerByLen(groups, partitions, server_index) ==
    LET same == {l \in DOMAIN groups : Len(l) = Len(partitions)} IN
    IF same # {}
    THEN LET l == CHOOSE x \in same : TRUE IN
         Insert(groups, l, Append(groups[l], server_index))
    ELSE Insert(groups, partitions, <<server_index>>)

\* entry(partitions).or_insert_with(Vec::new).push(server_index)
PushServer(groups, partitions, server_index) ==
    IF partitions \in DOMAIN groups
    THEN Insert(groups, partitions, Append(groups[partitions], server_index))
    ELSE Insert(groups, partitions, <<server_index>>)

\* ------------------------------------------------------------------ state
VARIABLES
    reported,                      \* server index -> local partition list
    self,                          \* process -> its dataflow server index
    pc,                            \* process -> position in main
    server_index_value,            \* process -> result of the first job
    delivered,                     \* process -> servers whose pair the stream yielded
    stream_failed,                 \* process -> the stream yielded an Err item
    partition_lists,               \* process -> HashMap<u32, Vec<u32>>
    partition_list_on_processes,   \* process -> HashMap<Vec<u32>, Vec<u32>>
    groups_todo,                   \* process -> keys the resolve loop has yet to visit
    partition_server_index_map,    \* process -> HashMap<u32, u32>
    entries_todo,                  \* process -> entries the mapping loop has yet to visit
    config,                        \* process -> the properties file it was started with
    submitted,                     \* process -> calls made of pegasus::startup / run
    fail_cause,                    \* process -> the step that ended the bootstrap
    job1_item                      \* process -> first item of the first job's stream

bootVars == <<config, submitted, fail_cause, job1_item>>

protoVars == <<reported, self, pc, server_index_value, delivered, stream_failed,
               partition_lists, partition_list_on_processes, groups_todo,
               partition_server_index_map, entries_todo, bootVars>>

\* Registry cells of read_graph.rs and the threads that call its functions.
VARIABLES
    GRAPH_PROXY,                   \* AtomicPtr: 0 is null, i > 0 points at boxes[i]
    boxes,                         \* the leaked Box<Arc<dyn ReadGraph>> cells
    PROCESS_PARTITION_LISTS,       \* value guarded by its RwLock
    SERVER_INDEX,
    READ_VERSION,
    rwlock,                        \* cell -> [writer, readers] of its RwLock
    tpc,                           \* thread -> position in the function it runs
    tcell,                         \* thread -> cell of the replace_*/get_* it runs
    targ,                          \* thread -> argument, or the pointer it loaded
    ret,                           \* thread -> what its last get_* returned
    calls,                         \* number of calls the threads may still make
    published,                     \* cell -> [done, value] of the latest store
    saw_pub,                       \* thread -> it has read a published cell
    reg_started,                   \* register_graph calls begun
    reg_done,                      \* register_graph calls completed
    reg_overlap,                   \* thread -> its register_graph overlapped another
    last_reg,                      \* [h, clean] of the register_graph completed last
    g_snap,                        \* thread -> what held when its get_graph loaded
    ver_hist                       \* [last, lowered]: result of the latest get_read_version;
                                   \* a replace_read_version has lowered the stored value

cellVars == <<GRAPH_PROXY, boxes, PROCESS_PARTITION_LISTS, SERVER_INDEX, READ_VERSION,
              rwlock>>
threadVars == <<tpc, tcell, targ, ret, calls>>
histVars == <<published, saw_pub, reg_started, reg_done, reg_overlap, last_reg, g_snap,
              ver_hist>>
regVars == <<cellVars, threadVars, histVars>>

vars == <<protoVars, regVars>>

\* --------------------------------------------------------------- bootstrap
\* Keys main reads from the properties file, in the order it reads them.
ConfigKeys == {"rpc.port", "server.id", "server.size", "network.servers",
               "graph.vineyard.object.id"}

\* A properties file: whether it parses, per key whether its value is there and
\* well-formed, and whether network.servers has server.size entries.
Configs ==
    [file : BOOLEAN, key : [ConfigKeys -> {"ok", "missing", "malformed"}],
     hosts_match : BOOLEAN]

ValidConfig(cfg) ==
    /\ cfg.file
    /\ \A k \in ConfigKeys : cfg.key[k] = "ok"
    /\ cfg.hosts_match

GoodConfig == [file |-> TRUE, key |-> [k \in ConfigKeys |-> "ok"], hosts_match |-> TRUE]

\* main without assert_eq!(server_size, hosts.len()).
ParseOutcomeNoAssert(cfg) ==
    IF ~cfg.file THEN {"failed"}
    ELSE IF \E k \in ConfigKeys \ {"network.servers"} : cfg.key[k] # "ok" THEN {"failed"}
    ELSE IF cfg.key["network.servers"] = "missing" THEN {"failed"}
    ELSE IF cfg.key["network.servers"] = "malformed" THEN {"failed", "panicked"}
    ELSE {"ok"}

\* Lines 45-82 of main, the set of ways they can end: "failed" is an Err
\* returned through `?`, "panicked" the assert_eq! on the number of hosts or
\* ip_port[1] on a host entry without ':'.
ParseOutcome(cfg) ==
    IF ~cfg.file THEN {"failed"}
    ELSE IF cfg.key["rpc.port"] # "ok" THEN {"failed"}
    ELSE IF cfg.key["server.id"] # "ok" THEN {"failed"}
    ELSE IF cfg.key["server.size"] # "ok" THEN {"failed"}
    ELSE IF cfg.key["network.servers"] = "missing" THEN {"failed"}
    ELSE IF cfg.key["graph.vineyard.object.id"] # "ok" THEN {"failed"}
    ELSE IF ~cfg.hosts_match THEN {"panicked"}
    ELSE IF cfg.key["network.servers"] = "malformed" THEN {"failed", "panicked"}
    ELSE {"ok"}

NoCalls == [startup |-> 0, job1 |-> 0, job2 |-> 0]

NoItem == [kind |-> "unset", v |-> 0]

InitProto(running, inputs, configs) ==
    /\ reported \in inputs
    /\ self \in {f \in [Procs -> Servers] : \A p \in Procs \ running : f[p] = 0}
    /\ pc = [p \in Procs |-> IF p \in running THEN "config" ELSE "off"]
    /\ server_index_value = [p \in Procs |-> 0]
    /\ delivered = [p \in Procs |-> {}]
    /\ stream_failed = [p \in Procs |-> FALSE]
    /\ partition_lists = [p \in Procs |-> EmptyMap]
    /\ partition_list_on_processes = [p \in Procs |-> EmptyMap]
    /\ groups_todo = [p \in Procs |-> {}]
    /\ partition_server_index_map = [p \in Procs |-> EmptyMap]
    /\ entries_todo = [p \in Procs |-> {}]
    /\ config \in {f \in [Procs -> configs \cup {GoodConfig}] :
                     /\ \A p \in running : f[p] \in configs
                     /\ \A p \in Procs \ running : f[p] = GoodConfig}
    /\ submitted = [p \in Procs |-> NoCalls]
    /\ fail_cause = [p \in Procs |-> "none"]
    /\ job1_item = [p \in Procs |-> NoItem]

protoData == <<reported, self, server_index_value, delivered, stream_failed,
               partition_lists, partition_list_on_processes, groups_todo,
               partition_server_index_map, entries_todo>>

\* main, lines 45-89: read the properties and build the server configuration
ParseConfig(p) ==
    /\ pc[p] = "config"
    /\ \E outcome \in ParseOutcome(config[p]) :
       /\ pc' = [pc EXCEPT ![p] = IF outcome = "ok" THEN "storage" ELSE outcome]
       /\ fail_cause' = [fail_cause EXCEPT ![p] = IF outcome = "ok" THEN @ ELSE "config"]
    /\ UNCHANGED <<protoData, config, submitted, job1_item>>

\* grin_get_partitioned_graph_from_storage(uri); GrinGraphProxy::new(pg).unwrap();
\* get_local_partition_ids()
OpenStorage(p) ==
    /\ pc[p] = "storage"
    /\ \E ok \in BOOLEAN :
         /\ pc' = [pc EXCEPT ![p] = IF ok THEN "startup" ELSE "panicked"]
         /\ fail_cause' = [fail_cause EXCEPT ![p] = IF ok THEN @ ELSE "storage"]
    /\ UNCHANGED <<protoData, config, submitted, job1_item>>

\* pegasus::startup(server_config)?; wait_servers_ready(&ServerConf::All)
Startup(p) ==
    /\ pc[p] = "startup"
    /\ submitted' = [submitted EXCEPT ![p].startup = @ + 1]
    /\ \E ok \in BOOLEAN :
         /\ pc' = [pc EXCEPT ![p] = IF ok THEN "job1" ELSE "failed"]
         /\ fail_cause' = [fail_cause EXCEPT ![p] = IF ok THEN @ ELSE "startup"]
    /\ UNCHANGED <<protoData, config, job1_item>>

\* pegasus::run(conf "query_current_worker_id").map_err(..)?  The worker of this
\* process emits pegasus::get_current_worker().server_index.
RunJob1(p) ==
    /\ pc[p] = "job1"
    /\ submitted' = [submitted EXCEPT ![p].job1 = @ + 1]
    /\ \E item \in {[kind |-> "nobuild", v |-> 0], [kind |-> "none", v |-> 0],
                    [kind |-> "err", v |-> 0], [kind |-> "ok", v |-> self[p]]} :
         /\ job1_item' = [job1_item EXCEPT ![p] = item]
         /\ pc' = [pc EXCEPT ![p] = IF item.kind = "nobuild" THEN "failed" ELSE "results1"]
         /\ fail_cause' = [fail_cause EXCEPT
                             ![p] = IF item.kind = "nobuild" THEN "build1" ELSE @]
    /\ UNCHANGED <<protoData, config>>

\* The first job's result taken with unwrap_or_default: a missing or failed item
\* counts as server index 0.
PullJob1Default(p) ==
    /\ pc[p] = "results1"
    /\ server_index_value' = [server_index_value EXCEPT ![p] = job1_item[p].v]
    /\ pc' = [pc EXCEPT ![p] = "job2"]
    /\ UNCHANGED <<reported, self, delivered, stream_failed,
                   partition_lists, partition_list_on_processes, groups_todo,
                   partition_server_index_map, entries_todo, bootVars>>

\* if let Some(Ok(v)) = results.next() { server_index_value = v } else { return Err }
PullJob1(p) ==
    /\ pc[p] = "results1"
    /\ IF job1_item[p].kind = "ok"
       THEN /\ server_index_value' = [server_index_value EXCEPT ![p] = job1_item[p].v]
            /\ pc' = [pc EXCEPT ![p] = "job2"]
            /\ UNCHANGED fail_cause
       ELSE /\ pc' = [pc EXCEPT ![p] = "failed"]
            /\ fail_cause' = [fail_cause EXCEPT ![p] = "pull1"]
            /\ UNCHANGED server_index_value
    /\ UNCHANGED <<reported, self, delivered, stream_failed,
                   partition_lists, partition_list_on_processes, groups_todo,
                   partition_server_index_map, entries_todo,
                   config, submitted, job1_item>>

\* pegasus::run(conf "sync_global_process_partition_lists").map_err(..)?
RunJob2(p) ==
    /\ pc[p] = "job2"
    /\ submitted' = [submitted EXCEPT ![p].job2 = @ + 1]
    /\ \E ok \in BOOLEAN :
         /\ pc' = [pc EXCEPT ![p] = IF ok THEN "collect" ELSE "failed"]
         /\ fail_cause' = [fail_cause EXCEPT ![p] = IF ok THEN @ ELSE "build2"]
    /\ UNCHANGED <<protoData, config, job1_item>>

\* The collecting loop without partition_lists.insert(server_index, partitions.clone()).
RecvPairGroupOnly(p) ==
    /\ pc[p] = "collect"
    /\ \E server_index \in Servers \ delivered[p] :
         LET partitions == reported[server_index] IN
         /\ delivered' = [delivered EXCEPT ![p] = @ \cup {server_index}]
         /\ UNCHANGED partition_lists
         /\ partition_list_on_processes' =
              [partition_list_on_processes EXCEPT
                 ![p] = PushServer(@, partitions, server_index)]
    /\ UNCHANGED <<reported, self, pc, server_index_value, stream_failed, groups_todo,
                   partition_server_index_map, entries_todo>>
    /\ UNCHANGED bootVars

\* while let Some(Ok((server_index, partitions))) = results.next() { .. }
\* The stream yields the broadcast pairs in an order of its own.
RecvPair(p) ==
    /\ pc[p] = "collect"
    /\ \E server_index \in Servers \ delivered[p] :
         LET partitions == reported[server_index] IN
         /\ delivered' = [delivered EXCEPT ![p] = @ \cup {server_index}]
         /\ partition_lists' =
              [partition_lists EXCEPT ![p] = Insert(@, server_index, partitions)]
         /\ partition_list_on_processes' =
              [partition_list_on_processes EXCEPT
                 ![p] = PushServer(@, partitions, server_index)]
    /\ UNCHANGED <<reported, self, pc, server_index_value, stream_failed, groups_todo,
                   partition_server_index_map, entries_todo>>
    /\ UNCHANGED bootVars

\* results.next() is Some(Err(_)): the while-let ends the loop.
RecvErr(p) ==
    /\ pc[p] = "collect"
    /\ stream_failed' = [stream_failed EXCEPT ![p] = TRUE]
    /\ groups_todo' = [groups_todo EXCEPT ![p] = DOMAIN partition_list_on_processes[p]]
    /\ pc' = [pc EXCEPT ![p] = "resolve"]
    /\ UNCHANGED <<reported, self, server_index_value, delivered,
                   partition_lists, partition_list_on_processes,
                   partition_server_index_map, entries_todo>>
    /\ UNCHANGED bootVars

\* results.next() is None: every pair was yielded.
RecvEnd(p) ==
    /\ pc[p] = "collect"
    /\ delivered[p] = Servers
    /\ groups_todo' = [groups_todo EXCEPT ![p] = DOMAIN partition_list_on_processes[p]]
    /\ pc' = [pc EXCEPT ![p] = "resolve"]
    /\ UNCHANGED <<reported, self, server_index_value, delivered, stream_failed,
                   partition_lists, partition_list_on_processes,
                   partition_server_index_map, entries_todo>>
    /\ UNCHANGED bootVars

\* The resolve loop without the assertion: an uneven list is cut into chunks of
\* the rounded-down size and its tail is dropped.
ResolveGroupTruncating(p) ==
    /\ pc[p] = "resolve"
    /\ \E partitions \in groups_todo[p] :
         LET servers == partition_list_on_processes[p][partitions]
             nchunk == Len(partitions) \div Len(servers)
         IN
         /\ groups_todo' = [groups_todo EXCEPT ![p] = @ \ {partitions}]
         /\ IF Len(servers) > 1
            THEN partition_lists' =
                     [partition_lists EXCEPT
                        ![p] = InsertChunks(@, partitions, servers, nchunk, 0)]
            ELSE UNCHANGED partition_lists
         /\ UNCHANGED pc
    /\ UNCHANGED <<reported, self, server_index_value, delivered, stream_failed,
                   partition_list_on_processes,
                   partition_server_index_map, entries_todo>>
    /\ UNCHANGED bootVars

\* One iteration of: for (partitions, servers) in partition_list_on_processes.iter()
\* (the HashMap decides the order).
ResolveGroup(p) ==
    /\ pc[p] = "resolve"
    /\ \E partitions \in groups_todo[p] :
         LET servers == partition_list_on_processes[p][partitions]
             nchunk == Len(partitions) \div Len(servers)
         IN
         /\ groups_todo' = [groups_todo EXCEPT ![p] = @ \ {partitions}]
         /\ IF Len(servers) > 1
            THEN IF Len(partitions) % Len(servers) # 0
                 THEN \* assert_eq! panics
                      /\ pc' = [pc EXCEPT ![p] = "panicked"]
                      /\ fail_cause' = [fail_cause EXCEPT ![p] = "uneven"]
                      /\ UNCHANGED partition_lists
                 ELSE /\ partition_lists' =
                           [partition_lists EXCEPT
                              ![p] = InsertChunks(@, partitions, servers, nchunk, 0)]
                      /\ UNCHANGED <<pc, fail_cause>>
            ELSE UNCHANGED <<pc, partition_lists, fail_cause>>
    /\ UNCHANGED <<reported, self, server_index_value, delivered, stream_failed,
                   partition_list_on_processes,
                   partition_server_index_map, entries_todo,
                   config, submitted, job1_item>>

\* Ok((server_index_value, partition_lists)); main calls
\* compute_partition_server_mapping(process_partition_lists)
SyncReturn(p) ==
    /\ pc[p] = "resolve"
    /\ groups_todo[p] = {}
    /\ entries_todo' = [entries_todo EXCEPT ![p] = DOMAIN partition_lists[p]]
    /\ pc' = [pc EXCEPT ![p] = "mapping"]
    /\ UNCHANGED <<reported, self, server_index_value, delivered, stream_failed,
                   partition_lists, partition_list_on_processes, groups_todo,
                   partition_server_index_map>>
    /\ UNCHANGED bootVars

\* One iteration of: for (server_index, partitions) in process_partition_lists.iter()
MapEntry(p) ==
    /\ pc[p] = "mapping"
    /\ \E server_index \in entries_todo[p] :
         /\ entries_todo' = [entries_todo EXCEPT ![p] = @ \ {server_index}]
         /\ partition_server_index_map' =
              [partition_server_index_map EXCEPT
                 ![p] = InsertPartitions(@, partition_lists[p][server_index],
                                         server_index, 1)]
    /\ UNCHANGED <<reported, self, pc, server_index_value, delivered, stream_failed,
                   partition_lists, partition_list_on_processes, groups_todo>>
    /\ UNCHANGED bootVars

\* Ok(partition_server_index_map)
MapReturn(p) ==
    /\ pc[p] = "mapping"
    /\ entries_todo[p] = {}
    /\ pc' = [pc EXCEPT ![p] = "mapped"]
    /\ UNCHANGED <<reported, self, server_index_value, delivered, stream_failed,
                   partition_lists, partition_list_on_processes, groups_todo,
                   partition_server_index_map, entries_todo>>
    /\ UNCHANGED bootVars

\* start_rpc_server(server_id, rpc_config, job_assembly, GaiaServiceListener)
StartRpc(p) ==
    /\ pc[p] = "mapped"
    /\ pc' = [pc EXCEPT ![p] = "serving"]
    /\ UNCHANGED <<reported, self, server_index_value, delivered, stream_failed,
                   partition_lists, partition_list_on_processes, groups_todo,
                   partition_server_index_map, entries_todo>>
    /\ UNCHANGED bootVars

NextProto ==
    \E p \in Procs :
        \/ ParseConfig(p)
        \/ OpenStorage(p)
        \/ Startup(p)
        \/ RunJob1(p)
        \/ PullJob1(p)
        \/ RunJob2(p)
        \/ RecvPair(p)
        \/ RecvErr(p)
        \/ RecvEnd(p)
        \/ ResolveGroup(p)
        \/ SyncReturn(p)
        \/ MapEntry(p)
        \/ MapReturn(p)
        \/ StartRpc(p)

\* ---------------------------------------------------------------- registry
Threads == 1 .. NumThreads
\* Graph handles a caller may pass to register_graph (Arc<dyn ReadGraph> values).
Handles == {1, 2}
RwCells == {"lists", "index", "version"}
Cells == {"graph"} \cup RwCells

Null == 0
Unspecified == 0 - 1

\* Maps a caller may pass to replace_process_partition_lists.
SomeMaps == {[s \in Servers |-> Run(s, 1)], [s \in Servers |-> Run(0, s)]}

\* u32 values a caller may pass to replace_server_index / replace_read_version.
SomeU32 == {0, 1}

ArgValues(c) == IF c = "lists" THEN SomeMaps ELSE SomeU32

\* lazy_static!: AtomicPtr::default(), RwLock::new(HashMap::new()), RwLock::new(0)
InitialValue(c) ==
    CASE c = "graph" -> Null
      [] c = "lists" -> EmptyMap
      [] OTHER -> 0

CellValue(c) ==
    CASE c = "lists" -> PROCESS_PARTITION_LISTS
      [] c = "index" -> SERVER_INDEX
      [] OTHER -> READ_VERSION

NoRet == [cell |-> "none", value |-> 0, pub |-> [done |-> FALSE, value |-> 0],
          after_pub |-> FALSE, expect |-> Unspecified, cands |-> {}, regs |-> 0,
          prev |-> Unspecified, lowered |-> FALSE]

NoSnap == [expect |-> Unspecified, cands |-> {}, pub |-> [done |-> FALSE, value |-> 0]]

InitReg(ncalls) ==
    /\ GRAPH_PROXY = Null
    /\ boxes = << >>
    /\ PROCESS_PARTITION_LISTS = EmptyMap
    /\ SERVER_INDEX = 0
    /\ READ_VERSION = 0
    /\ rwlock = [c \in RwCells |-> [writer |-> 0, readers |-> {}]]
    /\ tpc = [t \in Threads |-> "idle"]
    /\ tcell = [t \in Threads |-> "none"]
    /\ targ = [t \in Threads |-> 0]
    /\ ret = [t \in Threads |-> NoRet]
    /\ calls = ncalls
    /\ published = [c \in Cells |-> [done |-> FALSE, value |-> InitialValue(c)]]
    /\ saw_pub = [t \in Threads |-> FALSE]
    /\ reg_started = 0
    /\ reg_done = 0
    /\ reg_overlap = [t \in Threads |-> FALSE]
    /\ last_reg = [h |-> Null, clean |-> FALSE]
    /\ g_snap = [t \in Threads |-> NoSnap]
    /\ ver_hist = [last |-> Unspecified, lowered |-> FALSE]

\* AtomicPtr::store that keeps a pointer already published.
StorePtrOnce(cur, ptr) == IF cur = Null THEN ptr ELSE cur

\* GRAPH_PROXY.store(ptr, Ordering::SeqCst)
StorePtr(cur, ptr) == ptr

\* An assignment that is lost.
AssignNothing(cur, new) == cur

\* An assignment that resets the cell.
AssignDefault(cur, new) == 0

\* *global_map = new_map; *server_index = new_index; *read_version = new_version
Assign(cur, new) == new

Registering == {t \in Threads : tpc[t] = "reg_store"}

\* register_graph: let ptr = Box::into_raw(Box::new(graph));
RegisterAlloc(t, h) ==
    /\ tpc[t] = "idle"
    /\ calls > 0
    /\ calls' = calls - 1
    /\ boxes' = Append(boxes, h)
    /\ targ' = [targ EXCEPT ![t] = Len(boxes) + 1]
    /\ tpc' = [tpc EXCEPT ![t] = "reg_store"]
    /\ reg_started' = reg_started + 1
    /\ reg_overlap' = [u \in Threads |->
                         IF u = t THEN Registering # {}
                         ELSE IF u \in Registering THEN TRUE ELSE reg_overlap[u]]
    /\ g_snap' = [u \in Threads |->
                    IF tpc[u] = "get_deref"
                    THEN [g_snap[u] EXCEPT !.expect = Unspecified, !.cands = @ \cup {h}]
                    ELSE g_snap[u]]
    /\ UNCHANGED <<GRAPH_PROXY, PROCESS_PARTITION_LISTS, SERVER_INDEX, READ_VERSION,
                   rwlock, tcell, ret, published, saw_pub, reg_done, last_reg, ver_hist>>

\* register_graph with GRAPH_PROXY.swap and a drop of the box swapped out.
RegisterStoreFreeing(t) ==
    /\ tpc[t] = "reg_store"
    /\ GRAPH_PROXY' = StorePtr(GRAPH_PROXY, targ[t])
    /\ boxes' = IF GRAPH_PROXY = Null THEN boxes ELSE [boxes EXCEPT ![GRAPH_PROXY] = Null]
    /\ tpc' = [tpc EXCEPT ![t] = "idle"]
    /\ targ' = [targ EXCEPT ![t] = 0]
    /\ published' = [published EXCEPT !["graph"] = [done |-> TRUE, value |-> boxes[targ[t]]]]
    /\ reg_done' = reg_done + 1
    /\ last_reg' = [h |-> boxes[targ[t]], clean |-> ~reg_overlap[t]]
    /\ reg_overlap' = [reg_overlap EXCEPT ![t] = FALSE]
    /\ UNCHANGED <<PROCESS_PARTITION_LISTS, SERVER_INDEX, READ_VERSION, rwlock,
                   tcell, ret, calls, saw_pub, reg_started, g_snap, ver_hist>>

\* register_graph: GRAPH_PROXY.store(ptr, Ordering::SeqCst); return
RegisterStore(t) ==
    /\ tpc[t] = "reg_store"
    /\ GRAPH_PROXY' = StorePtr(GRAPH_PROXY, targ[t])
    /\ tpc' = [tpc EXCEPT ![t] = "idle"]
    /\ targ' = [targ EXCEPT ![t] = 0]
    /\ published' = [published EXCEPT !["graph"] = [done |-> TRUE, value |-> boxes[targ[t]]]]
    /\ reg_done' = reg_done + 1
    /\ last_reg' = [h |-> boxes[targ[t]], clean |-> ~reg_overlap[t]]
    /\ reg_overlap' = [reg_overlap EXCEPT ![t] = FALSE]
    /\ UNCHANGED <<boxes, PROCESS_PARTITION_LISTS, SERVER_INDEX, READ_VERSION, rwlock,
                   tcell, ret, calls, saw_pub, reg_started, g_snap, ver_hist>>

\* What a get_graph that loads now is expected to return: the handle of the last
\* register_graph when that call has completed and no other overlapped or followed it.
ExpectedGraph ==
    IF reg_done > 0 /\ reg_started = reg_done /\ last_reg.clean THEN last_reg.h ELSE Unspecified

\* get_graph: let ptr = GRAPH_PROXY.load(Ordering::SeqCst); if ptr.is_null() { None }
GetGraphLoad(t) ==
    /\ tpc[t] = "idle"
    /\ calls > 0
    /\ calls' = calls - 1
    /\ IF GRAPH_PROXY = Null
       THEN /\ ret' = [ret EXCEPT ![t] =
                         [cell |-> "graph", value |-> Null, pub |-> published["graph"],
                          after_pub |-> saw_pub[t], expect |-> ExpectedGraph,
                          cands |-> {Null} \cup {boxes[targ[u]] : u \in Registering},
                          regs |-> reg_started,
                          prev |-> Unspecified, lowered |-> FALSE]]
            /\ saw_pub' = [saw_pub EXCEPT ![t] = @ \/ published["graph"].done]
            /\ UNCHANGED <<tpc, targ, g_snap>>
       ELSE /\ targ' = [targ EXCEPT ![t] = GRAPH_PROXY]
            /\ tpc' = [tpc EXCEPT ![t] = "get_deref"]
            /\ g_snap' = [g_snap EXCEPT ![t] =
                            [expect |-> ExpectedGraph,
                             cands |-> {published["graph"].value}
                                         \cup {boxes[targ[u]] : u \in Registering},
                             pub |-> published["graph"]]]
            /\ UNCHANGED <<ret, saw_pub>>
    /\ UNCHANGED <<GRAPH_PROXY, boxes, PROCESS_PARTITION_LISTS, SERVER_INDEX, READ_VERSION,
                   rwlock, tcell, published, reg_started, reg_done, reg_overlap, last_reg,
                   ver_hist>>

\* get_graph: Some(unsafe { (*ptr).clone() })
GetGraphDeref(t) ==
    /\ tpc[t] = "get_deref"
    /\ ret' = [ret EXCEPT ![t] =
                 [cell |-> "graph", value |-> boxes[targ[t]], pub |-> g_snap[t].pub,
                  after_pub |-> saw_pub[t], expect |-> g_snap[t].expect,
                  cands |-> g_snap[t].cands, regs |-> reg_started,
                  prev |-> Unspecified, lowered |-> FALSE]]
    /\ saw_pub' = [saw_pub EXCEPT ![t] = @ \/ g_snap[t].pub.done]
    /\ tpc' = [tpc EXCEPT ![t] = "idle"]
    /\ targ' = [targ EXCEPT ![t] = 0]
    /\ g_snap' = [g_snap EXCEPT ![t] = NoSnap]
    /\ UNCHANGED <<cellVars, tcell, calls, published, reg_started, reg_done,
                   reg_overlap, last_reg, ver_hist>>

\* The content of a cell while `*guard = new_value` is being carried out under
\* the write guard: the old value is being dropped and the new one moved in, and
\* the memory holds neither.
Writing(c) == IF c = "lists" THEN [k \in {0 - 2} |-> << >>] ELSE 0 - 2

\* A read guard handed out whatever the state of the lock.
ReadGrantedAlways(c) == TRUE

\* RwLock::read is granted when no writer holds the lock.
ReadGranted(c) == rwlock[c].writer = 0

\* replace_process_partition_lists / replace_server_index / replace_read_version:
\* X.write().unwrap() is granted when no thread holds the lock; the assignment
\* through the guard begins.
AcquireWrite(t, c, v) ==
    /\ tpc[t] = "idle"
    /\ calls > 0
    /\ rwlock[c].writer = 0
    /\ rwlock[c].readers = {}
    /\ calls' = calls - 1
    /\ rwlock' = [rwlock EXCEPT ![c].writer = t]
    /\ tpc' = [tpc EXCEPT ![t] = "w_held"]
    /\ tcell' = [tcell EXCEPT ![t] = c]
    /\ targ' = [targ EXCEPT ![t] = v]
    /\ PROCESS_PARTITION_LISTS' =
         IF c = "lists" THEN Writing(c) ELSE PROCESS_PARTITION_LISTS
    /\ SERVER_INDEX' = IF c = "index" THEN Writing(c) ELSE SERVER_INDEX
    /\ READ_VERSION' = IF c = "version" THEN Writing(c) ELSE READ_VERSION
    /\ UNCHANGED <<GRAPH_PROXY, boxes, ret, histVars>>

\* *guard = new value; the guard is dropped at the end of the function
WriteRelease(t) ==
    /\ tpc[t] = "w_held"
    /\ PROCESS_PARTITION_LISTS' =
         IF tcell[t] = "lists" THEN Assign(PROCESS_PARTITION_LISTS, targ[t])
                               ELSE PROCESS_PARTITION_LISTS
    /\ SERVER_INDEX' =
         IF tcell[t] = "index" THEN Assign(SERVER_INDEX, targ[t]) ELSE SERVER_INDEX
    /\ READ_VERSION' =
         IF tcell[t] = "version" THEN Assign(READ_VERSION, targ[t]) ELSE READ_VERSION
    /\ rwlock' = [rwlock EXCEPT ![tcell[t]].writer = 0]
    /\ published' = [published EXCEPT ![tcell[t]] = [done |-> TRUE, value |-> targ[t]]]
    /\ tpc' = [tpc EXCEPT ![t] = "idle"]
    /\ tcell' = [tcell EXCEPT ![t] = "none"]
    /\ targ' = [targ EXCEPT ![t] = 0]
    /\ ver_hist' = IF tcell[t] = "version" /\ targ[t] < published["version"].value
                   THEN [ver_hist EXCEPT !.lowered = TRUE]
                   ELSE ver_hist
    /\ UNCHANGED <<GRAPH_PROXY, boxes, ret, calls, saw_pub, reg_started,
                   reg_done, reg_overlap, last_reg, g_snap>>

\* get_process_partition_lists / get_server_index / get_read_version:
\* X.read().unwrap()
AcquireRead(t, c) ==
    /\ tpc[t] = "idle"
    /\ calls > 0
    /\ ReadGranted(c)
    /\ calls' = calls - 1
    /\ rwlock' = [rwlock EXCEPT ![c].readers = @ \cup {t}]
    /\ tpc' = [tpc EXCEPT ![t] = "r_held"]
    /\ tcell' = [tcell EXCEPT ![t] = c]
    /\ UNCHANGED <<GRAPH_PROXY, boxes, PROCESS_PARTITION_LISTS, SERVER_INDEX, READ_VERSION,
                   targ, ret, histVars>>

\* guard.clone() / *guard is returned; the guard is dropped
ReadRelease(t) ==
    /\ tpc[t] = "r_held"
    /\ ret' = [ret EXCEPT ![t] =
                 [cell |-> tcell[t], value |-> CellValue(tcell[t]),
                  pub |-> published[tcell[t]], after_pub |-> saw_pub[t],
                  expect |-> Unspecified, cands |-> {}, regs |-> reg_started,
                  prev |-> IF tcell[t] = "version" THEN ver_hist.last ELSE Unspecified,
                  lowered |-> IF tcell[t] = "version" THEN ver_hist.lowered ELSE FALSE]]
    /\ ver_hist' = IF tcell[t] = "version"
                   THEN [ver_hist EXCEPT !.last = READ_VERSION]
                   ELSE ver_hist
    /\ saw_pub' = [saw_pub EXCEPT ![t] = @ \/ published[tcell[t]].done]
    /\ rwlock' = [rwlock EXCEPT ![tcell[t]].readers = @ \ {t}]
    /\ tpc' = [tpc EXCEPT ![t] = "idle"]
    /\ tcell' = [tcell EXCEPT ![t] = "none"]
    /\ UNCHANGED <<GRAPH_PROXY, boxes, PROCESS_PARTITION_LISTS, SERVER_INDEX, READ_VERSION,
                   targ, calls, published, reg_started, reg_done, reg_overlap,
                   last_reg, g_snap>>

NextReg ==
    \E t \in Threads :
        \/ \E h \in Handles : RegisterAlloc(t, h)
        \/ RegisterStore(t)
        \/ GetGraphLoad(t)
        \/ GetGraphDeref(t)
        \/ \E c \in RwCells : \E v \in ArgValues(c) : AcquireWrite(t, c, v)
        \/ WriteRelease(t)
        \/ \E c \in RwCells : AcquireRead(t, c)
        \/ ReadRelease(t)

AllInputs == [Servers -> LocalPartitionLists]

\* Every server owns one partition of its own.
OneInput == {[s \in Servers |-> Run(s, 1)]}

Init == InitProto({"a"}, AllInputs, {GoodConfig}) /\ InitReg(MaxCalls)
Next == NextProto /\ UNCHANGED regVars
Spec == Init /\ [][Next]_vars

\* Two processes of the cluster run the bootstrap on the same reported lists.
InitDet == InitProto(Procs, AllInputs, {GoodConfig}) /\ InitReg(MaxCalls)
DetSpec == InitDet /\ [][Next]_vars

\* One process is started with any properties file.
ConfInit == InitProto({"a"}, OneInput, Configs) /\ InitReg(MaxCalls)
ConfSpec == ConfInit /\ [][Next]_vars

\* Threads of one process call the registry functions.
RegInit == InitProto({}, OneInput, {GoodConfig}) /\ InitReg(MaxCalls)
RegNext == NextReg /\ UNCHANGED protoVars
RegSpec == RegInit /\ [][RegNext]_vars

\* Threads of one process call replace_read_version and get_read_version only
\* (one call more than in RegSpec: two reads, each after a write).
VerInit == InitProto({}, OneInput, {GoodConfig}) /\ InitReg(MaxCalls + 1)
VerNext ==
    /\ \E t \in Threads :
          \/ \E v \in SomeU32 : AcquireWrite(t, "version", v)
          \/ WriteRelease(t)
          \/ AcquireRead(t, "version")
          \/ ReadRelease(t)
    /\ UNCHANGED protoVars
VerSpec == VerInit /\ [][VerNext]_vars

\* ------------------------------------------------------------------ claims
Elems(l) == {l[i] : i \in 1 .. Len(l)}

\* sync_global_process_partition_lists has returned Ok((_, partition_lists[p])).
SyncReturned(p) == pc[p] \in {"mapping", "mapped", "serving"}

\* compute_partition_server_mapping has returned Ok(partition_server_index_map[p]).
MapReturned(p) == pc[p] \in {"mapped", "serving"}

\* The pairs the process has collected from the stream.
CollectedPartitions(p) == UNION {Elems(reported[s]) : s \in delivered[p]}

AssignedPartitions(p) == UNION {Elems(partition_lists[p][s]) : s \in DOMAIN partition_lists[p]}

\* A list some group of more than one server reported identically.
SharedLists(p) ==
    {l \in DOMAIN partition_list_on_processes[p] :
        Len(partition_list_on_processes[p][l]) > 1}

UnevenLists(p) ==
    {l \in SharedLists(p) : Len(l) % Len(partition_list_on_processes[p][l]) # 0}

\* Position (0-based) of server s in its group taken in ascending server-index order.
RankIn(group, s) == Cardinality({x \in group : x < s})

DuplicateOwnership(p) ==
    \E s1, s2 \in DOMAIN partition_lists[p] :
        /\ s1 # s2
        /\ Elems(partition_lists[p][s1]) \cap Elems(partition_lists[p][s2]) # {}

\* C1: in every map sync_global_process_partition_lists returns, the partition
\* lists of two distinct server indices share no partition id.
C1_Disjointness ==
    \A p \in Procs :
        SyncReturned(p) =>
            \A s1, s2 \in DOMAIN partition_lists[p] :
                s1 # s2 =>
                    Elems(partition_lists[p][s1]) \cap Elems(partition_lists[p][s2]) = {}

\* C2: two processes that collected the same full set of broadcast pairs hold
\* the same process-to-partitions map and the same partition-to-server map.
C2_Determinism ==
    (/\ SyncReturned("a") /\ SyncReturned("b")
     /\ delivered["a"] = Servers /\ delivered["b"] = Servers)
    => /\ partition_lists["a"] = partition_lists["b"]
       /\ (MapReturned("a") /\ MapReturned("b"))
            => partition_server_index_map["a"] = partition_server_index_map["b"]

\* C3: a list shared by a group of g servers is cut into g contiguous chunks of L/g
\* partitions and chunk k belongs to the k-th server of the group in ascending
\* server-index order.
C3_EvenSplit ==
    \A p \in Procs :
        SyncReturned(p) =>
            \A l \in SharedLists(p) :
                LET group == Elems(partition_list_on_processes[p][l])
                    nchunk == Len(l) \div Cardinality(group)
                IN \A s \in group :
                       partition_lists[p][s] = Chunk(l, RankIn(group, s), nchunk)

\* C4: the union of the partition ids of the returned map equals the union of the
\* partition ids of the collected lists.
C4_PartitionConservation ==
    \A p \in Procs :
        SyncReturned(p) => AssignedPartitions(p) = CollectedPartitions(p)

\* A non-empty shared list was split and the map returned.
C4_Witness ==
    \E p \in Procs :
        /\ SyncReturned(p)
        /\ \E l \in SharedLists(p) : Len(l) > 0

\* C5: once the collection has ended with a shared list whose length the group size
\* does not divide, the process either is still in the resolve loop with that list
\* unvisited or has panicked: it never returns a map, never computes the inverse
\* map and never starts the RPC server.
C5_UnevenSplitFatal ==
    \A p \in Procs :
        (pc[p] \notin {"off", "config", "storage", "startup", "job1", "results1", "job2",
                       "collect", "failed"}
         /\ UnevenLists(p) # {})
        => \/ pc[p] = "panicked"
           \/ /\ pc[p] = "resolve"
              /\ UnevenLists(p) \cap groups_todo[p] # {}

\* The assertion on an uneven group has ended the bootstrap.
C5_Witness ==
    \E p \in Procs :
        /\ pc[p] = "panicked"
        /\ UnevenLists(p) # {}
        /\ partition_server_index_map[p] = EmptyMap

\* C6: every partition of every entry of the input maps to that entry's server in
\* the returned map, and every entry of the returned map has its partition in its
\* server's list.
C6_InverseConsistency ==
    \A p \in Procs :
        MapReturned(p) =>
            /\ \A s \in DOMAIN partition_lists[p] :
                   \A part \in Elems(partition_lists[p][s]) :
                       /\ part \in DOMAIN partition_server_index_map[p]
                       /\ partition_server_index_map[p][part] = s
            /\ \A part \in DOMAIN partition_server_index_map[p] :
                   LET s == partition_server_index_map[p][part] IN
                   /\ s \in DOMAIN partition_lists[p]
                   /\ part \in Elems(partition_lists[p][s])

\* C7: compute_partition_server_mapping does not return a map for an input in which
\* two server indices list the same partition id.
C7_DuplicateOwnershipDetected ==
    \A p \in Procs : DuplicateOwnership(p) => ~MapReturned(p)

\* C8: sync_global_process_partition_lists returns a map only after the stream has
\* yielded the pair of every server.
C8_NoPartialResults ==
    \A p \in Procs : SyncReturned(p) => delivered[p] = Servers

\* C9: a get_graph that returns before any register_graph has begun returns None;
\* a get_graph that loads after register_graph(h) has completed, with no other
\* register_graph overlapping or following that call, returns h; and every
\* get_graph returns the value the cell held when it loaded or the handle of a
\* register_graph that was in progress during it.
C9_RegistryVisibility ==
    \A t \in Threads :
        ret[t].cell = "graph" =>
            /\ ret[t].regs = 0 => ret[t].value = Null
            /\ ret[t].expect # Unspecified => ret[t].value = ret[t].expect
            /\ ret[t].value \in ret[t].cands

\* A get_graph returned the handle of the second of two completed register_graph calls.
C9_Witness ==
    \E t \in Threads :
        /\ ret[t].cell = "graph"
        /\ ret[t].expect \in Handles
        /\ ret[t].value = ret[t].expect
        /\ reg_done = 2

\* C10 as claimed: a thread that has read some cell in its published state never
\* afterwards reads a cell that is still in its initial, unpublished state.
C10_AllOrNothing ==
    \A t \in Threads :
        (ret[t].cell # "none" /\ ret[t].after_pub) => ret[t].pub.done

\* C10 as amended: each cell is published on its own. A read of a cell returns the
\* cell's initial value while no store to that cell has completed and the value of
\* the cell's latest completed store afterwards, whatever the other cells hold.
C10_PerCellPublication ==
    \A t \in Threads :
        ret[t].cell # "none" =>
            /\ ret[t].value = ret[t].pub.value
            /\ ~ret[t].pub.done => ret[t].value = InitialValue(ret[t].cell)

\* A thread read a published cell and then a cell not yet published.
C10_Witness ==
    \E t \in Threads :
        /\ ret[t].cell # "none"
        /\ ret[t].after_pub
        /\ ~ret[t].pub.done

C12_SelfIndexFailsClosed ==
    \A p \in Procs :
        /\ job1_item[p].kind \in {"nobuild", "none", "err"} =>
              /\ pc[p] \in {"results1", "failed"}
              /\ job1_item[p].kind = "nobuild" => pc[p] = "failed"
              /\ submitted[p].job2 = 0
              /\ ~SyncReturned(p)
              /\ partition_lists[p] = EmptyMap
        /\ fail_cause[p] \in {"build1", "pull1"} =>
              /\ pc[p] = "failed"
              /\ job1_item[p].kind # "ok"
        /\ (submitted[p].job2 > 0 \/ SyncReturned(p)) =>
              /\ job1_item[p].kind = "ok"
              /\ server_index_value[p] = job1_item[p].v
              /\ server_index_value[p] = self[p]

C12_Witness ==
    \E p \in Procs :
        /\ job1_item[p].kind = "err"
        /\ fail_cause[p] = "pull1"
        /\ pc[p] = "failed"

\* C13: the RPC front end is started only after both collective jobs and
\* compute_partition_server_mapping completed successfully; each collective job
\* is submitted at most once; and a process that met an error during the
\* protocol (a failed build, a missing or failed stream item, a panic) never
\* starts the RPC server.
C13_ProtocolBeforeServing ==
    \A p \in Procs :
        /\ submitted[p].job1 <= 1
        /\ submitted[p].job2 <= 1
        /\ pc[p] = "serving" =>
              /\ submitted[p].job1 = 1
              /\ submitted[p].job2 = 1
              /\ job1_item[p].kind = "ok"
              /\ fail_cause[p] = "none"
              /\ ~stream_failed[p]

\* C14: a process whose properties file lacks one of rpc.port, server.id,
\* server.size, network.servers or the graph object id, or has an unparseable
\* value for one, or lists a number of hosts other than server.size, ends in
\* failure without having started the dataflow engine or submitted a job.
C14_ConfigErrorsAbortEarly ==
    \A p \in Procs :
        ~ValidConfig(config[p]) =>
            /\ pc[p] \in {"config", "failed", "panicked"}
            /\ pc[p] # "config" => fail_cause[p] = "config"
            /\ submitted[p] = NoCalls

C14_Witness ==
    \E p \in Procs :
        /\ config[p].file
        /\ \A k \in ConfigKeys : config[p].key[k] = "ok"
        /\ ~config[p].hosts_match
        /\ pc[p] = "panicked"
        /\ submitted[p] = NoCalls

\* C15: a thread that calls get_graph, get_process_partition_lists,
\* get_server_index or get_read_version can always take its read at once,
\* whatever the other threads are doing, a writer in progress on the same cell
\* included.
C15_ReadersNeverWait ==
    \A t \in Threads :
        (tpc[t] = "idle" /\ calls > 0) =>
            /\ ENABLED GetGraphLoad(t)
            /\ \A c \in RwCells : ENABLED AcquireRead(t, c)

\* C16: the map compute_partition_server_mapping returns is a total function on
\* the partitions of its input: its keys are exactly the partitions that occur in
\* some list of the input, and each is mapped to a server whose list contains it.
C16_MappingTotal ==
    \A p \in Procs :
        MapReturned(p) =>
            /\ DOMAIN partition_server_index_map[p] = AssignedPartitions(p)
            /\ \A part \in DOMAIN partition_server_index_map[p] :
                   LET s == partition_server_index_map[p][part] IN
                   /\ s \in DOMAIN partition_lists[p]
                   /\ part \in Elems(partition_lists[p][s])

\* A map was returned for an input in which two servers list the same partition.
C16_Witness ==
    \E p \in Procs :
        /\ MapReturned(p)
        /\ DuplicateOwnership(p)
        /\ Cardinality(DOMAIN partition_server_index_map[p]) >= 2

\* C17: a server whose list no other collected server reported keeps that list
\* unchanged in the returned map; when all collected lists differ pairwise the
\* returned map is the collected input.
C17_SingletonsUntouched ==
    \A p \in Procs :
        SyncReturned(p) =>
            /\ \A s \in delivered[p] :
                   (\A s2 \in delivered[p] \ {s} : reported[s2] # reported[s])
                   => /\ s \in DOMAIN partition_lists[p]
                      /\ partition_lists[p][s] = reported[s]
            /\ (\A s1, s2 \in delivered[p] : s1 # s2 => reported[s1] # reported[s2])
               => partition_lists[p] = [s \in delivered[p] |-> reported[s]]

\* All servers were collected with pairwise different non-empty lists.
C17_Witness ==
    \E p \in Procs :
        /\ SyncReturned(p)
        /\ delivered[p] = Servers
        /\ \A s1, s2 \in Servers : s1 # s2 => reported[s1] # reported[s2]
        /\ \A s \in Servers : Len(reported[s]) >= 2
        /\ partition_lists[p] = reported

\* C18: the keys of the map sync_global_process_partition_lists returns are
\* exactly the server indices whose pair it collected.
C18_KeysAreCollectedServers ==
    \A p \in Procs :
        SyncReturned(p) => DOMAIN partition_lists[p] = delivered[p]

\* A map was returned after a group of servers with one shared list was split.
C18_Witness ==
    \E p \in Procs :
        /\ SyncReturned(p)
        /\ delivered[p] = Servers
        /\ SharedLists(p) # {}
        /\ DOMAIN partition_lists[p] = Servers

\* C19: each of PROCESS_PARTITION_LISTS, SERVER_INDEX and READ_VERSION is an
\* atomic register. A get returns, whole, the initial value of its cell or the
\* argument of a replace on that cell, namely of the latest replace completed
\* when the get reads; and the content of a cell changes only in a step of a
\* replace on that cell, never in a step of a get or of an operation on
\* another cell.
C19_AtomicRegisters ==
    /\ [](\A t \in Threads :
            ret[t].cell \in RwCells =>
                /\ ret[t].value \in {InitialValue(ret[t].cell)} \cup ArgValues(ret[t].cell)
                /\ ret[t].value = ret[t].pub.value
                /\ ret[t].pub.done => ret[t].value \in ArgValues(ret[t].cell))
    /\ [][\A c \in RwCells :
            CellValue(c)' # CellValue(c) =>
                \E t \in Threads :
                    \/ tpc[t] = "idle" /\ tpc'[t] = "w_held" /\ tcell'[t] = c
                    \/ tpc[t] = "w_held" /\ tcell[t] = c /\ tpc'[t] = "idle"
                                         /\ CellValue(c)' = targ[t]]_vars

\* A get has returned the map written to the partition-lists cell, and another
\* thread is writing a different cell.
C19_Witness ==
    \E t, u \in Threads :
        /\ ret[t].cell = "lists"
        /\ ret[t].pub.done
        /\ ret[t].value \in SomeMaps
        /\ ret[t].value = PROCESS_PARTITION_LISTS
        /\ tpc[u] = "w_held"
        /\ tcell[u] # "lists"

\* C20: replacing the graph handle is safe for readers. Every handle get_graph
\* returns was passed to some register_graph, and is the handle of the latest
\* store at the time of the load; once every register_graph begun has completed,
\* GRAPH_PROXY points to the handle of the last store; the box a reader is about
\* to dereference is allocated; and no step frees or overwrites a box.
C20_GraphReplaceSafe ==
    /\ [](\A t \in Threads :
            /\ (ret[t].cell = "graph" /\ ret[t].value # Null) =>
                   /\ \E i \in 1 .. Len(boxes) : boxes[i] = ret[t].value
                   /\ ret[t].pub.done
                   /\ ret[t].value = ret[t].pub.value
            /\ tpc[t] = "get_deref" =>
                   /\ targ[t] \in 1 .. Len(boxes)
                   /\ boxes[targ[t]] \in Handles)
    /\ []((reg_done > 0 /\ Registering = {}) =>
            /\ GRAPH_PROXY \in 1 .. Len(boxes)
            /\ boxes[GRAPH_PROXY] = last_reg.h)
    /\ [][/\ Len(boxes') >= Len(boxes)
          /\ \A i \in 1 .. Len(boxes) : boxes'[i] = boxes[i]]_vars

\* A reader that has loaded the pointer is about to dereference a box that
\* another register_graph has replaced in the meantime.
C20_Witness ==
    \E t \in Threads :
        /\ tpc[t] = "get_deref"
        /\ GRAPH_PROXY # targ[t]
        /\ reg_done = 2
        /\ boxes[targ[t]] # boxes[GRAPH_PROXY]

====
